---- MODULE Spec2Model ----
(***************************************************************************)
(* Session-scoped order workflow of the Domino's MCP server.               *)
(*                                                                         *)
(* The session store (utils/sessionManager.js) holds the candidate stores, *)
(* the selected store and the orders.  An order is one JavaScript object:   *)
(* getOrder hands out a reference to the stored object, so an assignment    *)
(* a handler makes to a field of `order` is at once a change of the stored  *)
(* order.  The model therefore writes such assignments straight into       *)
(* orders[orderId].                                                        *)
(*                                                                         *)
(* validateOrder, priceOrder and placeOrder suspend at `await order.x()`,   *)
(* getMenu at `await new Menu(storeId)`.  Each is modelled by two actions:  *)
(* the synchronous part up to the await (xCall) and the continuation that   *)
(* runs when the remote provider answers (xReturn).  findNearbyStores       *)
(* touches the session only after its await and is one action, as is every *)
(* handler without an await; trackOrder never touches the session and is   *)
(* one action too.                                                          *)
(*                                                                         *)
(* The stdio server (createMCPServer) is modelled next to the session: it   *)
(* reads lines, answers them, and awaits the handler of an mcp/execute      *)
(* request, which is taken to settle in the end (weak fairness).            *)
(*                                                                         *)
(* The `dominos` package (Order, Item, Payment and the remote provider      *)
(* behind them) is not part of this repository.  It is modelled as the      *)
(* environment: a remote call either succeeds, updating the order from the  *)
(* response, or throws and leaves the order's fields as they were.          *)
(***************************************************************************)
EXTENDS Integers, Sequences, FiniteSets, TLC

\* ---------------------------------------------------------------- bounds
MaxOrders == 2
MaxItems == 3
MaxPending == 1
\* the narrower bounds of the pricing and placement workflow (SpecOrders)
WorkflowOrders == 1
WorkflowItems == 2

\* ------------------------------------------------------ input value sets
StoreIds == {"7890"}
OrderTypes == {"delivery", "carryout"}
NoAddress == "none"
AddressInputs == {NoAddress, "2 Portola Plaza"}
NoEmail == "none"
EmailInputs == {"brandon@example.com"}
Codes == {"16SCREEN"}
NoQuantity == 0
QuantityInputs == {NoQuantity, 2, -1}
NoOptions == "none"
EmptyOptions == "{}"
OptionsInputs == {NoOptions}
NoField == "none"
PaymentTypes == {"credit", "cash"}
NoTip == -1
TipInputs == {NoTip, 0, 3}
NoRemoteId == "none"
RemoteOrderIds == {"D-1001"}

\* ids a caller may pass: every id createOrder can issue, and one it never does
OrderIdInputs == 1..(MaxOrders + 1)
ItemIndexInputs == (-1)..MaxItems
\* the same, within the bounds of the pricing and placement workflow
WorkflowOrderIds == 1..(WorkflowOrders + 1)
WorkflowItemIndexes == (-1)..WorkflowItems

\* ------------------------------------------------------------ data shapes
\* order.amountsBreakdown: absent, or the amounts the remote pricing returned
NoBreakdown == [present |-> FALSE, menu |-> 0, tax |-> 0, customer |-> 0, surcharge |-> 0]
RemoteBreakdowns ==
    { NoBreakdown,
      [present |-> TRUE, menu |-> 0,  tax |-> 0, customer |-> 0,  surcharge |-> 0],
      [present |-> TRUE, menu |-> 13, tax |-> 1, customer |-> 17, surcharge |-> 3] }

NoPricing == [subTotal |-> 0, tax |-> 0, total |-> 0, hasDelivery |-> FALSE, delivery |-> 0]

NoPaymentInput ==
    [type |-> "none", cardNumber |-> NoField, expiration |-> NoField,
     securityCode |-> NoField, postalCode |-> NoField, tipAmount |-> NoTip]
\* payments a caller may pass: credit with every card field (each tip input), credit
\* with one card field missing, cash without card fields
Card(n, e, c, t) ==
    [type |-> "credit", cardNumber |-> n, expiration |-> e, securityCode |-> c,
     postalCode |-> "93940", tipAmount |-> t]
Cash(t) ==
    [type |-> "cash", cardNumber |-> NoField, expiration |-> NoField,
     securityCode |-> NoField, postalCode |-> NoField, tipAmount |-> t]
PaymentInputs ==
    { Card("4100123422343234", "01/28", "123", t) : t \in TipInputs }
    \cup { Card(NoField, "01/28", "123", 3),
           Card("4100123422343234", NoField, "123", 3),
           Card("4100123422343234", "01/28", NoField, 3) }
    \cup { Cash(NoTip), Cash(3) }

NoCustomer == [firstName |-> "", lastName |-> "", phone |-> "", email |-> NoEmail, address |-> NoAddress]
CustomerInputs ==
    [firstName : {"Brandon"}, lastName : {"Miller"}, phone : {"941-555-2368"},
     email : EmailInputs, address : AddressInputs]

NoCreateParams == [storeId |-> "", orderType |-> "", customer |-> NoCustomer]
CreateParams == [storeId : StoreIds, orderType : OrderTypes, customer : CustomerInputs]

ItemInputs == [code : Codes, options : OptionsInputs, quantity : QuantityInputs]
NoItemInput == [code |-> "", options |-> NoOptions, quantity |-> NoQuantity]
NoItemIndex == 0

\* the result of getOrderState before any call of it
NoOrderState ==
    [orderId |-> NoRemoteId, storeId |-> "", serviceMethod |-> "",
     customer |-> [firstName |-> "", lastName |-> "", email |-> NoEmail, phone |-> ""],
     address |-> NoAddress, items |-> <<>>]

\* menu.dominosAPIResponse: absent, or with or without each of its sections
MenuData(present, hasProducts, products, hasVariants, hasToppings, status, hasStatusItem) ==
    [present |-> present, hasProducts |-> hasProducts, products |-> products,
     hasVariants |-> hasVariants, hasToppings |-> hasToppings,
     status |-> status, hasStatusItem |-> hasStatusItem]

NoMenuData == MenuData(FALSE, FALSE, <<>>, FALSE, FALSE, 0, FALSE)

VARIABLES
    draft,          \* which of the two createOrder drafts in createOrder.js the build runs
    stores,         \* state.stores: the last recorded candidate list (raw remote stores)
    selectedStore,  \* state.selectedStore: a StoreID, or "none" for null
    menu,           \* state.menu: the last menu fetched, NoMenu for null
    orders,         \* state.orders: sequence of order objects, orderId = position
    pending,        \* handlers suspended at an await of a remote call
    everPriced,     \* history: orderIds for which some priceOrder returned "priced"
    placeReturned,  \* history: orderIds for which some placeOrder has returned a result
    lastOp,         \* the step just taken: handler, input, outcome, remote call issued
    server          \* the stdio server: lines read, handlers awaited, messages sent

vars ==
    <<draft, stores, selectedStore, menu, orders, pending, everPriced, placeReturned, lastOp,
      server>>

NoStore == "none"

\* the step a getOrderState call follows: handler, order id and status
NoStep == [op |-> "", orderId |-> 0, status |-> ""]

\* the call tracked nothing: no parameters, no remote query, no checklist
NoTrackParams == [phoneNumber |-> <<>>, storeId |-> NoStore, orderId |-> NoRemoteId]
NoQuery == [by |-> "none", storeId |-> NoStore, orderId |-> NoRemoteId, phone |-> <<>>]
NoTracker == <<>>
NoTime == ""

\* what one step reports: the handler, its input, how it ended and the remote call it issued
NoOp ==
    [op |-> "init", orderId |-> 0, outcome |-> "returned", status |-> "", error |-> "",
     isValid |-> "none", remote |-> "none", answer |-> "none", sent |-> <<>>,
     pricing |-> NoPricing,
     payment |-> NoPaymentInput, create |-> NoCreateParams, store |-> NoStore,
     item |-> NoItemInput, itemIndex |-> NoItemIndex, remaining |-> 0, items |-> <<>>,
     state |-> NoOrderState, after |-> NoStep, storeId |-> NoStore, found |-> <<>>,
     menuData |-> NoMenuData, categories |-> <<>>,
     track |-> NoTrackParams, query |-> NoQuery, tracker |-> NoTracker,
     estimatedTime |-> NoTime]

Op(op, orderId) == [NoOp EXCEPT !.op = op, !.orderId = orderId]
\* `throw new Error(...)` caught by the handler's outer catch and rethrown to the caller
Raised(op, orderId, msg) == [Op(op, orderId) EXCEPT !.outcome = "raised", !.error = msg]
\* the reason carried by an error the dominos package throws
RemoteReason == "DominosError"
\* a handler resumed from its await: the remote call answered, or threw
Resumed(op, orderId, ok) ==
    [Op(op, orderId) EXCEPT !.answer = IF ok THEN "ok" ELSE "failed"]

\* --------------------------------------------------------- session manager
\* getOrder: state.orders[orderId] || null
HasOrder(os, orderId) == orderId \in DOMAIN os

\* updateOrder: replaces the stored order only when the id exists
updateOrder(os, orderId, order) ==
    IF orderId \in DOMAIN os THEN [os EXCEPT ![orderId] = order] ELSE os

\* an id that was issued before handed out again
sessionCreateOrderReusedId(os, order) ==
    IF os = <<>> THEN <<order>> ELSE [os EXCEPT ![Len(os)] = order]

\* createOrder of the session manager: state.orders[uuidv4()] = order.  The fresh
\* uuid is the next position of the sequence.
sessionCreateOrder(os, order) == Append(os, order)

\* selectStore: the new value of state.selectedStore (which the call also returns)
selectStore(ss, sel, storeId) ==
    IF \E i \in DOMAIN ss : ss[i].StoreID = storeId THEN storeId ELSE sel

\* -------------------------------------------------------------- createOrder
\* The address check of each draft.  params.customer.address stands for the
\* address the caller supplies for the customer: draft 1 (lines 16-71) takes
\* it from params.address, draft 2 (lines 88-147) from params.customer.address.
\* a draft 2 that forgets the delivery check
AddressErrorUnchecked(d, params) ==
    IF d = 1 /\ params.customer.address = NoAddress
    THEN "Address is required even for carry out orders" ELSE ""

AddressError(d, params) ==
    IF d = 1
    THEN IF params.customer.address = NoAddress
         THEN "Address is required even for carry out orders" ELSE ""
    ELSE IF params.orderType = "delivery" /\ params.customer.address = NoAddress
         THEN "Address is required for delivery orders" ELSE ""

\* the service method left at the Order's default
NewOrderDefaultMethod(params) ==
    [storeID |-> params.storeId,
     serviceMethod |-> "Delivery",
     firstName |-> params.customer.firstName,
     lastName |-> params.customer.lastName,
     phone |-> params.customer.phone,
     email |-> params.customer.email,
     address |-> params.customer.address,
     products |-> <<>>,
     amountsBreakdown |-> NoBreakdown,
     payments |-> <<>>,
     orderID |-> NoRemoteId,
     status |-> ""]

\* new Customer(customerData), new Order(dominosCustomer), storeID, serviceMethod
NewOrder(params) ==
    [storeID |-> params.storeId,
     serviceMethod |-> IF params.orderType = "delivery" THEN "Delivery" ELSE "Carryout",
     firstName |-> params.customer.firstName,
     lastName |-> params.customer.lastName,
     phone |-> params.customer.phone,
     email |-> params.customer.email,
     address |-> params.customer.address,
     products |-> <<>>,
     amountsBreakdown |-> NoBreakdown,
     payments |-> <<>>,
     orderID |-> NoRemoteId,
     status |-> ""]

\* the order registered before the address is checked
createOrderFailsAfterInsert(params) ==
    /\ AddressError(draft, params) # ""
    /\ Len(orders) < MaxOrders
    /\ orders' = sessionCreateOrder(orders, NewOrder(params))
    /\ lastOp' = [Raised("createOrder", 0, AddressError(draft, params)) EXCEPT !.create = params]
    /\ UNCHANGED <<server, draft, menu, stores, selectedStore, pending, everPriced, placeReturned>>

createOrderFails(params) ==
    /\ AddressError(draft, params) # ""
    /\ lastOp' = [Raised("createOrder", 0, AddressError(draft, params)) EXCEPT !.create = params]
    /\ UNCHANGED <<server, draft, menu, stores, selectedStore, orders, pending, everPriced, placeReturned>>

createOrderSucceeds(params) ==
    /\ AddressError(draft, params) = ""
    /\ Len(orders) < MaxOrders
    /\ orders' = sessionCreateOrder(orders, NewOrder(params))
    /\ selectedStore' = selectStore(stores, selectedStore, params.storeId)
    /\ lastOp' = [Op("createOrder", Len(orders')) EXCEPT
                     !.status = "created", !.create = params, !.store = selectedStore']
    /\ UNCHANGED <<server, draft, menu, stores, pending, everPriced, placeReturned>>

createOrder(params) == createOrderFails(params) \/ createOrderSucceeds(params)

\* ------------------------------------------------------------ item mutation
\* the quantity passed on without its default
NewItemNoDefault(item) ==
    [code |-> item.code,
     options |-> IF item.options = NoOptions THEN EmptyOptions ELSE item.options,
     qty |-> item.quantity]

\* new Item({code, options: item.options || {}, quantity: item.quantity || 1})
NewItem(item) ==
    [code |-> item.code,
     options |-> IF item.options = NoOptions THEN EmptyOptions ELSE item.options,
     qty |-> IF item.quantity = 0 THEN 1 ELSE item.quantity]

\* formattedItems: the item list addItemToOrder returns
FormatItems(products) ==
    [i \in DOMAIN products |->
        [code |-> products[i].code,
         name |-> products[i].code,
         options |-> products[i].options,
         quantity |-> IF products[i].qty = 0 THEN 1 ELSE products[i].qty]]

\* the pricing dropped when an item is added
AddItemResetsPricing(order, dominosItem) ==
    [order EXCEPT !.products = Append(@, dominosItem), !.amountsBreakdown = NoBreakdown]

\* order.addItem(dominosItem)
AddItem(order, dominosItem) == [order EXCEPT !.products = Append(@, dominosItem)]

addItemToOrder(orderId, item) ==
    /\ IF ~HasOrder(orders, orderId)
       THEN /\ lastOp' = [Raised("addItemToOrder", orderId, "Order not found") EXCEPT
                            !.item = item]
            /\ UNCHANGED orders
       ELSE /\ Len(orders[orderId].products) < MaxItems
            /\ orders' = updateOrder(orders, orderId,
                   AddItem(orders[orderId], NewItem(item)))
            /\ lastOp' = [Op("addItemToOrder", orderId) EXCEPT
                            !.status = "updated", !.item = item,
                            !.items = FormatItems(orders'[orderId].products)]
    /\ UNCHANGED <<server, draft, menu, stores, selectedStore, pending, everPriced, placeReturned>>

\* the first item dropped whatever the index
RemoveAtFirst(products, itemIndex) ==
    [i \in 1..(Len(products) - 1) |-> products[i + 1]]

\* order.removeItem(order.products[itemIndex]): drops that one Item instance
RemoveAt(products, itemIndex) ==
    [i \in 1..(Len(products) - 1) |->
        IF i <= itemIndex THEN products[i] ELSE products[i + 1]]

\* `>` written for `>=` in the range check
RemoveErrorOffByOne(os, orderId, itemIndex) ==
    IF itemIndex < 0 THEN "Invalid itemIndex provided"
    ELSE IF ~HasOrder(os, orderId) THEN "Order not found in session"
    ELSE IF itemIndex > Len(os[orderId].products) THEN "Invalid itemIndex"
    ELSE ""

\* the reason removeItemFromOrder rejects the call with, "" when it accepts it
RemoveError(os, orderId, itemIndex) ==
    IF itemIndex < 0 THEN "Invalid itemIndex provided"
    ELSE IF ~HasOrder(os, orderId) THEN "Order not found in session"
    ELSE IF itemIndex >= Len(os[orderId].products) THEN "Invalid itemIndex"
    ELSE ""

\* every failure is caught and returned as a result with status error_removing_item
removeItemFromOrder(orderId, itemIndex) ==
    /\ IF RemoveError(orders, orderId, itemIndex) # ""
       THEN /\ lastOp' = [Op("removeItemFromOrder", orderId) EXCEPT
                            !.status = "error_removing_item",
                            !.error = RemoveError(orders, orderId, itemIndex),
                            !.itemIndex = itemIndex]
            /\ UNCHANGED orders
       ELSE /\ orders' = [orders EXCEPT ![orderId].products = RemoveAt(@, itemIndex)]
            /\ lastOp' = [Op("removeItemFromOrder", orderId) EXCEPT
                            !.status = "item_removed", !.itemIndex = itemIndex,
                            !.remaining = Len(orders'[orderId].products)]
    /\ UNCHANGED <<server, draft, menu, stores, selectedStore, pending, everPriced, placeReturned>>

\* orderState: what getOrderState reports of a stored order
OrderState(order) ==
    [orderId |-> order.orderID,
     storeId |-> order.storeID,
     serviceMethod |-> order.serviceMethod,
     customer |-> [firstName |-> order.firstName, lastName |-> order.lastName,
                   email |-> order.email, phone |-> order.phone],
     address |-> order.address,
     items |-> [i \in DOMAIN order.products |->
                  [index |-> i - 1,
                   code |-> order.products[i].code,
                   name |-> order.products[i].code,
                   options |-> order.products[i].options,
                   quantity |-> order.products[i].qty]]]

getOrderState(orderId) ==
    /\ lastOp' = IF ~HasOrder(orders, orderId)
                 THEN Raised("getOrderState", orderId, "Order not found in session")
                 ELSE [Op("getOrderState", orderId) EXCEPT
                          !.state = OrderState(orders[orderId]),
                          !.after = [op |-> lastOp.op, orderId |-> lastOp.orderId,
                                     status |-> lastOp.status]]
    /\ UNCHANGED <<server, draft, menu, stores, selectedStore, orders, pending, everPriced, placeReturned>>

\* ----------------------------------------------------- suspended handlers
Suspended(op, orderId) ==
    [op |-> op, orderId |-> orderId, storeId |-> NoStore, selected |-> NoStore]

\* the pending list without its i-th entry
Resume(i) == [j \in 1..(Len(pending) - 1) |-> IF j < i THEN pending[j] ELSE pending[j + 1]]

\* ------------------------------------------------------------ validateOrder
\* the item check left out
ValidateErrorNoItemsCheck(os, orderId) ==
    IF ~HasOrder(os, orderId) THEN "Order not found" ELSE ""

\* the reason validateOrder rejects the call with before the remote call, "" when it goes on
ValidateError(os, orderId) ==
    IF ~HasOrder(os, orderId) THEN "Order not found"
    ELSE IF Len(os[orderId].products) = 0 THEN "Order has no items"
    ELSE ""

validateOrderCall(orderId) ==
    /\ IF ValidateError(orders, orderId) # ""
       THEN /\ lastOp' = Raised("validateOrder", orderId, ValidateError(orders, orderId))
            /\ UNCHANGED pending
       ELSE /\ Len(pending) < MaxPending
            /\ pending' = Append(pending, Suspended("validateOrder", orderId))
            /\ lastOp' = [Op("validateOrder", orderId) EXCEPT
                            !.outcome = "awaiting", !.remote = "validate"]
    /\ UNCHANGED <<server, draft, menu, stores, selectedStore, orders, everPriced, placeReturned>>

\* the inner catch: validation failure is returned, not thrown
validateOrderFailed(orderId, message) ==
    [Resumed("validateOrder", orderId, FALSE) EXCEPT
        !.status = "validation_failed", !.isValid = "false", !.error = message]

validateOrderReturn(i, ok) ==
    /\ i \in DOMAIN pending
    /\ pending[i].op = "validateOrder"
    /\ pending' = Resume(i)
    /\ LET orderId == pending[i].orderId IN
       IF ok
       THEN /\ orders' = updateOrder(orders, orderId, orders[orderId])
            /\ lastOp' = [Resumed("validateOrder", orderId, TRUE) EXCEPT
                            !.status = "validated", !.isValid = "true"]
       ELSE /\ lastOp' = validateOrderFailed(orderId, RemoteReason)
            /\ UNCHANGED orders
    /\ UNCHANGED <<server, draft, menu, stores, selectedStore, everPriced, placeReturned>>

\* --------------------------------------------------------------- priceOrder
\* the delivery fee added whatever the service method
PricingAlwaysDelivery(order) ==
    [subTotal |-> order.amountsBreakdown.menu,
     tax |-> order.amountsBreakdown.tax,
     total |-> order.amountsBreakdown.customer,
     hasDelivery |-> TRUE,
     delivery |-> order.amountsBreakdown.surcharge]

\* the normalized breakdown priceOrder returns
Pricing(order) ==
    [subTotal |-> order.amountsBreakdown.menu,
     tax |-> order.amountsBreakdown.tax,
     total |-> order.amountsBreakdown.customer,
     hasDelivery |-> order.serviceMethod = "Delivery",
     delivery |-> IF order.serviceMethod = "Delivery"
                  THEN order.amountsBreakdown.surcharge ELSE 0]

priceOrderCall(orderId) ==
    /\ IF ~HasOrder(orders, orderId)
       THEN /\ lastOp' = Raised("priceOrder", orderId, "Order not found")
            /\ UNCHANGED pending
       ELSE /\ Len(pending) < MaxPending
            /\ pending' = Append(pending, Suspended("priceOrder", orderId))
            /\ lastOp' = [Op("priceOrder", orderId) EXCEPT
                            !.outcome = "awaiting", !.remote = "price"]
    /\ UNCHANGED <<server, draft, menu, stores, selectedStore, orders, everPriced, placeReturned>>

\* the inner catch: pricing failure is returned, not thrown
priceOrderFailed(orderId, message) ==
    [Resumed("priceOrder", orderId, FALSE) EXCEPT
        !.status = "pricing_failed", !.error = message]

priceOrderReturn(i, ok, breakdown) ==
    /\ i \in DOMAIN pending
    /\ pending[i].op = "priceOrder"
    /\ pending' = Resume(i)
    /\ LET orderId == pending[i].orderId
           priced == [orders[orderId] EXCEPT !.amountsBreakdown = breakdown]
       IN
       IF ok
       THEN /\ orders' = updateOrder(orders, orderId, priced)
            /\ everPriced' = everPriced \cup {orderId}
            /\ lastOp' = [Resumed("priceOrder", orderId, TRUE) EXCEPT
                            !.status = "priced", !.pricing = Pricing(priced)]
       ELSE /\ lastOp' = priceOrderFailed(orderId, RemoteReason)
            /\ UNCHANGED <<orders, everPriced>>
    /\ UNCHANGED <<server, draft, menu, stores, selectedStore, placeReturned>>

\* --------------------------------------------------------------- placeOrder
\* `&&` written for `||`
NotPricedAnd(order) ==
    order.amountsBreakdown.present /\ order.amountsBreakdown.customer = 0

\* !order.amountsBreakdown || !order.amountsBreakdown.customer
NotPriced(order) ==
    ~order.amountsBreakdown.present \/ order.amountsBreakdown.customer = 0

\* the security code left out of the check
CardDetailsMissingNoCvv(payment) ==
    \/ payment.cardNumber = NoField
    \/ payment.expiration = NoField

\* !payment.cardNumber || !payment.expiration || !payment.securityCode
CardDetailsMissing(payment) ==
    \/ payment.cardNumber = NoField
    \/ payment.expiration = NoField
    \/ payment.securityCode = NoField

\* the tip taken whatever the service method
TipHonoredAlways(order, payment) ==
    /\ payment.tipAmount # NoTip
    /\ payment.tipAmount # 0

\* payment.tipAmount && order.serviceMethod === "Delivery"
TipHonored(order, payment) ==
    /\ payment.tipAmount # NoTip
    /\ payment.tipAmount # 0
    /\ order.serviceMethod = "Delivery"

\* paymentData, the argument of new Payment(...)
PaymentData(order, payment) ==
    [amount |-> order.amountsBreakdown.customer,
     number |-> IF payment.type = "credit" THEN payment.cardNumber ELSE NoField,
     expiration |-> IF payment.type = "credit" THEN payment.expiration ELSE NoField,
     securityCode |-> IF payment.type = "credit" THEN payment.securityCode ELSE NoField,
     postalCode |-> IF payment.type = "credit" THEN payment.postalCode ELSE NoField,
     tipAmount |-> IF TipHonored(order, payment) THEN payment.tipAmount ELSE NoTip]

\* order.payments.push(dominosPayment) in place of the assignment
AttachPaymentPush(order, dominosPayment) ==
    [order EXCEPT !.payments = Append(@, dominosPayment)]

\* order.payments = [dominosPayment]
AttachPayment(order, dominosPayment) == [order EXCEPT !.payments = <<dominosPayment>>]

\* the reason placeOrder rejects the call with before building a payment, "" when it goes on
PlaceError(os, orderId, payment) ==
    IF ~HasOrder(os, orderId) THEN "Order not found"
    ELSE IF NotPriced(os[orderId]) THEN "Order must be priced before placing"
    ELSE IF payment.type = "credit" /\ CardDetailsMissing(payment)
         THEN "Card details are required for credit payment"
    ELSE ""

placeOrderRejects(orderId, payment) ==
    /\ PlaceError(orders, orderId, payment) # ""
    /\ lastOp' = [Raised("placeOrder", orderId, PlaceError(orders, orderId, payment))
                    EXCEPT !.payment = payment]
    /\ UNCHANGED <<server, draft, menu, stores, selectedStore, orders, pending, everPriced, placeReturned>>

\* new Payment(paymentData) throws inside the inner try: a placement_failed result,
\* nothing attached and nothing sent
placeOrderPaymentThrows(orderId, payment) ==
    /\ PlaceError(orders, orderId, payment) = ""
    /\ lastOp' = [Op("placeOrder", orderId) EXCEPT
                    !.status = "placement_failed", !.error = RemoteReason,
                    !.payment = payment]
    /\ placeReturned' = placeReturned \cup {orderId}
    /\ UNCHANGED <<server, draft, menu, stores, selectedStore, orders, pending, everPriced>>

\* the payment is attached to the stored order, then the handler awaits order.place()
placeOrderCall(orderId, payment) ==
    /\ PlaceError(orders, orderId, payment) = ""
    /\ Len(pending) < MaxPending
    /\ orders' = [orders EXCEPT ![orderId] =
                     AttachPayment(@, PaymentData(orders[orderId], payment))]
    /\ pending' = Append(pending, Suspended("placeOrder", orderId))
    /\ lastOp' = [Op("placeOrder", orderId) EXCEPT
                    !.outcome = "awaiting", !.remote = "place",
                    !.sent = orders'[orderId].payments, !.payment = payment]
    /\ UNCHANGED <<server, draft, menu, stores, selectedStore, everPriced, placeReturned>>

\* the failure rethrown to the caller
placeOrderFailedThrown(orderId, message) ==
    [Resumed("placeOrder", orderId, FALSE) EXCEPT !.outcome = "raised", !.error = message]

\* the inner catch: placement failure is returned, not thrown
placeOrderFailed(orderId, message) ==
    [Resumed("placeOrder", orderId, FALSE) EXCEPT
        !.status = "placement_failed", !.error = message]

placeOrderReturn(i, ok, remoteId) ==
    /\ i \in DOMAIN pending
    /\ pending[i].op = "placeOrder"
    /\ pending' = Resume(i)
    /\ LET orderId == pending[i].orderId IN
       /\ placeReturned' = placeReturned \cup {orderId}
       /\ IF ok
          THEN /\ orders' = updateOrder(orders, orderId,
                      [orders[orderId] EXCEPT !.orderID = remoteId, !.status = "Placed"])
               /\ lastOp' = [Resumed("placeOrder", orderId, TRUE) EXCEPT !.status = "placed"]
          ELSE /\ lastOp' = placeOrderFailed(orderId, RemoteReason)
               /\ UNCHANGED orders
    /\ UNCHANGED <<server, draft, menu, stores, selectedStore, everPriced>>

\* --------------------------------------------------------- findNearbyStores
\* store.MinDistance is kept in hundredths of a mile, NoDistance when undefined; the
\* distance of a result store in tenths of a mile, NoDistance when the key is absent
NoDistance == -1

\* a store of nearbyStoresResult.stores
RemoteStore(id, open, online, minDistance) ==
    [StoreID |-> id, IsOpen |-> open, IsOnlineCapable |-> online, MinDistance |-> minDistance]

\* the stores the remote lookup may know: two open online stores whose distances
\* differ by less than a tenth of a mile, a closed one, one that takes no online
\* orders, and an open online one without a distance
RemoteStores ==
    { RemoteStore("7890", TRUE, TRUE, 104),
      RemoteStore("7891", TRUE, TRUE, 101),
      RemoteStore("7892", FALSE, TRUE, 50),
      RemoteStore("7893", TRUE, FALSE, 60),
      RemoteStore("7894", TRUE, TRUE, NoDistance) }

MaxStores == 3

\* the lists the remote lookup may answer with: no store twice
RemoteStoreLists ==
    UNION { { l \in [1..n -> RemoteStores] : \A i, j \in 1..n : l[i] = l[j] => i = j }
            : n \in 0..MaxStores }

\* MinDistance.toFixed(1): hundredths rounded to tenths (no input ends in 5)
ToFixed1(minDistance) == (minDistance + 5) \div 10

\* .filter((store) => store.IsOnlineCapable && store.IsOpen)
KeepOpenOnline(remoteStores) ==
    SelectSeq(remoteStores, LAMBDA store : store.IsOnlineCapable /\ store.IsOpen)

\* .map((store) => ({storeID, ..., isOpen, ..., distance}))
ResultStore(store) ==
    [storeID |-> store.StoreID,
     isOpen |-> store.IsOpen,
     distance |-> IF store.MinDistance # NoDistance
                  THEN ToFixed1(store.MinDistance) ELSE NoDistance]

ResultStores(kept) == [i \in DOMAIN kept |-> ResultStore(kept[i])]

\* Array.prototype.sort with (a, b) => parseFloat(a.distance) - parseFloat(b.distance)
\* is stable: x goes behind every element that is not farther
InsertByDistance(sorted, x) ==
    LET p == Cardinality({ i \in DOMAIN sorted : sorted[i].distance <= x.distance })
    IN SubSeq(sorted, 1, p) \o <<x>> \o SubSeq(sorted, p + 1, Len(sorted))

RECURSIVE SortByDistance(_)
SortByDistance(found) ==
    IF found = <<>> THEN <<>>
    ELSE InsertByDistance(SortByDistance(SubSeq(found, 1, Len(found) - 1)), found[Len(found)])

Orderings(found) ==
    { [i \in DOMAIN found |-> found[f[i]]] :
        f \in { g \in [DOMAIN found -> DOMAIN found] :
                  \A i, j \in DOMAIN found : g[i] = g[j] => i = j } }

\* parseFloat(undefined) is NaN: with a store that has no distance the comparator is
\* not consistent and the order the sort leaves is implementation-defined
SortOutcomes(found) ==
    IF \A i \in DOMAIN found : found[i].distance # NoDistance
    THEN { SortByDistance(found) }
    ELSE Orderings(found)

findNearbyStores(ok, remoteStores) ==
    /\ IF ok
       THEN /\ stores' = remoteStores
            /\ \E sorted \in SortOutcomes(ResultStores(KeepOpenOnline(remoteStores))) :
                  lastOp' = [Op("findNearbyStores", 0) EXCEPT !.found = sorted]
       ELSE /\ lastOp' = Raised("findNearbyStores", 0, RemoteReason)
            /\ UNCHANGED stores
    /\ UNCHANGED <<server, draft, menu, selectedStore, orders, pending, everPriced, placeReturned>>

\* ------------------------------------------------------------------ getMenu
\* the store ids a caller may ask the menu of: ids the lookup knows and one it does not
MenuStoreIds == {"7890", "7891", "9999"}

\* state.menu: null, or the Menu the remote answered with; complete when the payload
\* has its Products, Variants and Toppings sections
NoMenu == [StoreID |-> NoStore, complete |-> FALSE]

\* a getMenu at its await; selected is history: the selection its call began with
SuspendedMenu(storeId, selected) ==
    [op |-> "getMenu", orderId |-> 0, storeId |-> storeId, selected |-> selected]

\* sessionManager.selectStore(storeId), then the handler awaits new Menu(storeId)
getMenuCall(storeId) ==
    /\ Len(pending) < MaxPending
    /\ selectedStore' = selectStore(stores, selectedStore, storeId)
    /\ pending' = Append(pending, SuspendedMenu(storeId, selectedStore))
    /\ lastOp' = [Op("getMenu", 0) EXCEPT
                    !.outcome = "awaiting", !.remote = "menu", !.storeId = storeId,
                    !.store = selectedStore']
    /\ UNCHANGED <<server, draft, menu, stores, orders, everPriced, placeReturned>>

\* ---- the payload of a menu: menu.dominosAPIResponse
\* a product of menuData.Products; a missing Name, Code or ProductType is ""
MenuProduct(code, name, type, variants) ==
    [Code |-> code, Name |-> name, ProductType |-> type, Variants |-> variants]

\* the products a payload may list: a pizza whose variants come out of code order and
\* twice under one code, a second product of the same name, one product of every raw
\* type the handler names, a sandwich whose only variant the payload does not
\* describe, a generic product, products of no type and of a type the handler does
\* not name, and products without a name
MenuProducts ==
    { MenuProduct("SPIZZA", "Pizza", "Pizza", <<"14SCREEN", "12SCREEN", "14THIN">>),
      MenuProduct("SPIZZB", "Pizza", "Pizza", <<>>),
      MenuProduct("SPASTA", "Pasta", "Pasta", <<>>),
      MenuProduct("SSAND", "Sandwich", "Sandwich", <<"GHOST">>),
      MenuProduct("SDESS", "Dessert", "Dessert", <<>>),
      MenuProduct("SDRINK", "Drink", "Drinks", <<>>),
      MenuProduct("SBREAD", "Bread", "Bread", <<>>),
      MenuProduct("SCOMBO", "Combo", "BreadDipCombos", <<>>),
      MenuProduct("SWINGS", "Wings", "Wings", <<"W08PHOTW">>),
      MenuProduct("STOTS", "Tots", "Tots", <<>>),
      MenuProduct("SSALAD", "Salad", "GSalad", <<>>),
      MenuProduct("SSAUCE", "Sauce", "DipSauce", <<>>),
      MenuProduct("SGENERIC", "Internal", "Generic", <<>>),
      MenuProduct("SEXTRA", "Extra", "", <<>>),
      MenuProduct("SGIFT", "Gift", "GiftCard", <<>>),
      MenuProduct("SNONAME", "", "Wings", <<>>),
      MenuProduct("SHIDDEN", "", "GiftCard", <<>>) }

MaxProducts == 2

\* Object.values(menuData.Products), in the order of the payload
ProductLists == UNION { [1..n -> MenuProducts] : n \in 0..MaxProducts }

\* menuData.Variants: the variants the payload describes; 14THIN carries the Code of
\* 14SCREEN, W08PHOTW carries neither Code nor Name
VariantCodes == {"12SCREEN", "14SCREEN", "14THIN", "W08PHOTW"}
MenuVariants ==
    [variantCode \in VariantCodes |->
        IF variantCode = "14THIN" THEN [Code |-> "14SCREEN", Name |-> "Thin 14"]
        ELSE IF variantCode = "W08PHOTW" THEN [Code |-> "", Name |-> ""]
        ELSE [Code |-> variantCode, Name |-> variantCode]]

\* Misc.Status of a payload that reports a store problem
StatusFailure == -1

\* payloads with every section, over every product list
CompleteMenus ==
    { MenuData(TRUE, TRUE, products, TRUE, TRUE, 0, FALSE) : products \in ProductLists }

\* payloads that lack a section (or everything), with and without a store status
SectionMenus ==
    { MenuData(TRUE, hasProducts, <<>>, hasVariants, hasToppings, status, hasStatusItem) :
        hasProducts \in BOOLEAN, hasVariants \in BOOLEAN, hasToppings \in BOOLEAN,
        status \in {0, StatusFailure}, hasStatusItem \in BOOLEAN }
IncompleteMenus ==
    {NoMenuData} \cup
    { menuData \in SectionMenus :
        ~(menuData.hasProducts /\ menuData.hasVariants /\ menuData.hasToppings) }

\* a payload with every section although it reports a store problem
FlaggedMenus == { MenuData(TRUE, TRUE, <<>>, TRUE, TRUE, StatusFailure, TRUE) }

MenuPayloads == CompleteMenus \cup IncompleteMenus \cup FlaggedMenus

\* the payload check that forgets the Toppings section
MenuIncompleteNoToppings(menuData) ==
    \/ ~menuData.present
    \/ ~menuData.hasProducts
    \/ ~menuData.hasVariants

\* !menuData || !menuData.Products || !menuData.Variants || !menuData.Toppings
MenuIncomplete(menuData) ==
    \/ ~menuData.present
    \/ ~menuData.hasProducts
    \/ ~menuData.hasVariants
    \/ ~menuData.hasToppings

\* the error an incomplete payload is refused with
MenuError(menuData) ==
    IF ~MenuIncomplete(menuData) THEN ""
    ELSE IF menuData.present /\ menuData.status = StatusFailure /\ menuData.hasStatusItem
    THEN "Store status indicates an issue"
    ELSE "Incomplete menu data received from API"

\* ---- the categories of a menu
NoCategory == ""
SideTypes == {"Bread", "BreadDipCombos", "Wings", "Tots", "GSalad", "DipSauce"}
categoryOrder == <<"Pizzas", "Pastas", "Sandwiches", "Sides", "Drinks", "Desserts", "Other">>

\* the category a product is filed under, NoCategory when it is skipped
CategoryOf(product) ==
    LET categoryName == IF product.ProductType = "" THEN "Other" ELSE product.ProductType
    IN  IF categoryName = "Pizza" THEN "Pizzas"
        ELSE IF categoryName = "Pasta" THEN "Pastas"
        ELSE IF categoryName = "Sandwich" THEN "Sandwiches"
        ELSE IF categoryName = "Dessert" THEN "Desserts"
        ELSE IF categoryName = "Drinks" THEN "Drinks"
        ELSE IF categoryName \in SideTypes THEN "Sides"
        ELSE IF categoryName = "Generic" \/ product.Name = "" THEN NoCategory
        ELSE "Other"

\* categorizedProducts[categoryName]
categorizedProducts(products, categoryName) ==
    SelectSeq(products, LAMBDA product : CategoryOf(product) = categoryName)

\* the strings of a menu in the order of localeCompare
Collation ==
    << "12SCREEN", "14SCREEN", "14THIN",
       "Bread", "Combo", "Dessert", "Drink", "Extra", "Gift", "Internal", "Pasta",
       "Pizza", "Salad", "Sandwich", "Sauce",
       "SBREAD", "SCOMBO", "SDESS", "SDRINK", "SEXTRA", "SGENERIC", "SGIFT", "SHIDDEN",
       "SNONAME", "SPASTA", "SPIZZA", "SPIZZB", "SSALAD", "SSAND", "SSAUCE", "STOTS",
       "SWINGS", "Thin 14", "Tots", "W08PHOTW", "Wings" >>
Rank(string) == CHOOSE i \in DOMAIN Collation : Collation[i] = string

\* the variant built from menuData.Variants[variantCode]
VariantOf(variantCode) ==
    [code |-> IF MenuVariants[variantCode].Code # ""
              THEN MenuVariants[variantCode].Code ELSE variantCode,
     name |-> IF MenuVariants[variantCode].Name # ""
              THEN MenuVariants[variantCode].Name ELSE variantCode]

\* the variants a product brings: those of its Variants the payload describes, or
\* the product itself when it lists none and has a Code and a Name
ProductVariants(product) ==
    IF Len(product.Variants) > 0
    THEN LET described == SelectSeq(product.Variants, LAMBDA c : c \in VariantCodes)
         IN  [k \in DOMAIN described |-> VariantOf(described[k])]
    ELSE IF product.Code # "" /\ product.Name # ""
    THEN << [code |-> product.Code, name |-> product.Name] >>
    ELSE <<>>

\* variants.push(variant) unless a variant of that code is there already
RECURSIVE PushVariants(_, _)
PushVariants(variants, new) ==
    IF new = <<>> THEN variants
    ELSE PushVariants(
             IF \E k \in DOMAIN variants : variants[k].code = Head(new).code
             THEN variants ELSE Append(variants, Head(new)),
             Tail(new))

\* one round of products.forEach: the product joins the item of its name, and an
\* item left without a variant is deleted
AggregateProduct(aggregatedItems, product) ==
    LET baseItemName == IF product.Name # "" THEN product.Name ELSE product.Code
        known == \E k \in DOMAIN aggregatedItems : aggregatedItems[k].name = baseItemName
        entered == IF known THEN aggregatedItems
                   ELSE Append(aggregatedItems,
                               [name |-> baseItemName, productCode |-> product.Code,
                                variants |-> <<>>])
        pushed == [k \in DOMAIN entered |->
                      IF entered[k].name = baseItemName
                      THEN [entered[k] EXCEPT
                               !.variants = PushVariants(@, ProductVariants(product))]
                      ELSE entered[k]]
    IN  IF baseItemName = "" \/ product.ProductType = "Generic" THEN aggregatedItems
        ELSE SelectSeq(pushed, LAMBDA item :
                 item.name # baseItemName \/ Len(item.variants) > 0)

RECURSIVE Aggregate(_, _)
Aggregate(aggregatedItems, products) ==
    IF products = <<>> THEN aggregatedItems
    ELSE Aggregate(AggregateProduct(aggregatedItems, Head(products)), Tail(products))

\* sort by localeCompare of a key no two elements share
SortByName(items) ==
    [i \in DOMAIN items |->
        CHOOSE k \in { items[j] : j \in DOMAIN items } :
            Cardinality({ j \in DOMAIN items : Rank(items[j].name) < Rank(k.name) }) = i - 1]
\* the variants left in the order they were pushed
KeepPushOrder(variants) == variants

SortByCode(variants) ==
    [i \in DOMAIN variants |->
        CHOOSE v \in { variants[j] : j \in DOMAIN variants } :
            Cardinality({ j \in DOMAIN variants : Rank(variants[j].code) < Rank(v.code) })
               = i - 1]

\* processCategory: the items of a category, by name, each with its variants by code
processCategory(products) ==
    LET finalItems == SortByName(Aggregate(<<>>, products))
    IN  [i \in DOMAIN finalItems |->
            [finalItems[i] EXCEPT !.variants = SortByCode(@)]]

\* a category listed whether or not it has an item
CategoriesKeepEmpty(menuData) ==
    LET listed == SelectSeq(categoryOrder, LAMBDA categoryName :
                      categorizedProducts(menuData.products, categoryName) # <<>>)
    IN  [k \in DOMAIN listed |->
            [name |-> listed[k],
             items |-> processCategory(categorizedProducts(menuData.products, listed[k]))]]

\* categories: in categoryOrder, each category that has a product and an item
Categories(menuData) ==
    LET listed == SelectSeq(categoryOrder, LAMBDA categoryName :
                      /\ categorizedProducts(menuData.products, categoryName) # <<>>
                      /\ processCategory(
                             categorizedProducts(menuData.products, categoryName)) # <<>>)
    IN  [k \in DOMAIN listed |->
            [name |-> listed[k],
             items |-> processCategory(categorizedProducts(menuData.products, listed[k]))]]

\* the menu is recorded before its payload is looked at; an incomplete payload and a
\* failed fetch are rethrown
getMenuReturn(i, ok, menuData) ==
    /\ i \in DOMAIN pending
    /\ pending[i].op = "getMenu"
    /\ pending' = Resume(i)
    /\ LET storeId == pending[i].storeId IN
       IF ok
       THEN /\ menu' = [StoreID |-> storeId, complete |-> ~MenuIncomplete(menuData)]
            /\ lastOp' = IF MenuError(menuData) = ""
                         THEN [Resumed("getMenu", 0, TRUE) EXCEPT
                                  !.storeId = storeId, !.status = "menu",
                                  !.menuData = menuData,
                                  !.categories = Categories(menuData)]
                         ELSE [Resumed("getMenu", 0, TRUE) EXCEPT
                                  !.storeId = storeId, !.outcome = "raised",
                                  !.menuData = menuData,
                                  !.error = MenuError(menuData)]
       ELSE /\ lastOp' = [Resumed("getMenu", 0, FALSE) EXCEPT
                            !.storeId = storeId, !.outcome = "raised",
                            !.error = RemoteReason]
            /\ UNCHANGED menu
    /\ UNCHANGED <<server, draft, stores, selectedStore, orders, everPriced, placeReturned>>

\* --------------------------------------------------------------- trackOrder
\* a phone number is the sequence of its characters
Digits == {"0", "1", "2", "3", "4", "5", "6", "7", "8", "9"}
PhoneInputs == { <<"5", "5", "5", "1">>, <<"(", "5", "5", ")", " ", "5", "-", "1">> }

\* phoneNumber.replace(/\D/g, "")
DigitsOnly(phoneNumber) == SelectSeq(phoneNumber, LAMBDA c : c \in Digits)

\* what a caller may pass: the order id is optional
TrackParams ==
    [phoneNumber : PhoneInputs, storeId : StoreIds, orderId : {NoRemoteId} \cup RemoteOrderIds]

\* the statuses the remote tracker may report: the six stages of either path, none
\* at all, and one the handler does not name
RemoteStatuses ==
    { "", "Placed", "Preparing", "Baking", "Quality Check", "Out for Delivery",
      "Ready for Pickup", "Complete", "Cancelled" }

\* trackingResult: its OrderStatus, ServiceMethod, EstimatedDeliveryTime and the Value
\* of the first of its StatusItems that tells a time, "" for what is missing
TrackingResults ==
    [OrderStatus : RemoteStatuses, ServiceMethod : {"Delivery", "Carryout"},
     EstimatedDeliveryTime : {NoTime, "6:30 PM"}, timeItem : {NoTime, "20 minutes"}]

\* what the remote tracker answers with: a result, nothing, or an error
NoResult == [OrderStatus |-> "none", ServiceMethod |-> "none",
             EstimatedDeliveryTime |-> NoTime, timeItem |-> NoTime]
TrackAnswers == [kind : {"result"}, result : TrackingResults]
                   \cup [kind : {"null", "throws"}, result : {NoResult}]

\* the phone number passed on as the caller wrote it
TrackQueryRawPhone(params) ==
    IF params.orderId # NoRemoteId
    THEN [by |-> "id", storeId |-> params.storeId, orderId |-> params.orderId,
          phone |-> <<>>]
    ELSE [by |-> "phone", storeId |-> params.storeId, orderId |-> NoRemoteId,
          phone |-> params.phoneNumber]

\* tracking.byId(storeId, orderId) when an order id is given, else
\* tracking.byPhone(formattedPhone, storeId)
TrackQuery(params) ==
    IF params.orderId # NoRemoteId
    THEN [by |-> "id", storeId |-> params.storeId, orderId |-> params.orderId,
          phone |-> <<>>]
    ELSE [by |-> "phone", storeId |-> params.storeId, orderId |-> NoRemoteId,
          phone |-> DigitsOnly(params.phoneNumber)]

\* trackingResult.OrderStatus || "Unknown"
OrderStatusOf(result) == IF result.OrderStatus = "" THEN "Unknown" ELSE result.OrderStatus

\* preparation true only while the order is being prepared
TrackerWhilePreparing(result) ==
    LET orderStatus == OrderStatusOf(result)
        preparation == orderStatus = "Preparing"
        baking == orderStatus \notin {"Preparing", "Placed", "Baking"}
        qualityCheck == orderStatus \notin {"Preparing", "Placed", "Baking", "Quality Check"}
    IN  IF result.ServiceMethod = "Delivery"
        THEN [orderPlaced |-> TRUE, preparation |-> preparation, baking |-> baking,
              qualityCheck |-> qualityCheck,
              outForDelivery |-> orderStatus \in {"Out for Delivery", "Complete"},
              delivered |-> orderStatus = "Complete"]
        ELSE [orderPlaced |-> TRUE, preparation |-> preparation, baking |-> baking,
              qualityCheck |-> qualityCheck,
              readyForPickup |-> orderStatus \in {"Ready for Pickup", "Complete"},
              pickedUp |-> orderStatus = "Complete"]

\* tracker: the checklist of the service method
Tracker(result) ==
    LET orderStatus == OrderStatusOf(result)
        preparation == orderStatus \notin {"Preparing", "Placed"}
        baking == orderStatus \notin {"Preparing", "Placed", "Baking"}
        qualityCheck == orderStatus \notin {"Preparing", "Placed", "Baking", "Quality Check"}
    IN  IF result.ServiceMethod = "Delivery"
        THEN [orderPlaced |-> TRUE, preparation |-> preparation, baking |-> baking,
              qualityCheck |-> qualityCheck,
              outForDelivery |-> orderStatus \in {"Out for Delivery", "Complete"},
              delivered |-> orderStatus = "Complete"]
        ELSE [orderPlaced |-> TRUE, preparation |-> preparation, baking |-> baking,
              qualityCheck |-> qualityCheck,
              readyForPickup |-> orderStatus \in {"Ready for Pickup", "Complete"},
              pickedUp |-> orderStatus = "Complete"]

\* estimatedTime: the remote estimate, else the time among the status items, replaced
\* by a fixed text at the last stage before completion
EstimatedTime(result) ==
    LET reported == IF result.EstimatedDeliveryTime # NoTime
                    THEN result.EstimatedDeliveryTime
                    ELSE IF result.timeItem # NoTime THEN result.timeItem
                    ELSE "Unknown"
    IN  IF result.ServiceMethod = "Delivery"
        THEN IF OrderStatusOf(result) = "Out for Delivery" THEN "5-15 minutes" ELSE reported
        ELSE IF OrderStatusOf(result) = "Ready for Pickup" THEN "Ready now" ELSE reported

\* the handler reads and writes nothing of the session; a remote error and a missing
\* result are returned with status tracking_failed
trackOrder(params, answer) ==
    /\ lastOp' =
          LET asked == [Op("trackOrder", 0) EXCEPT
                           !.track = params, !.query = TrackQuery(params),
                           !.remote = "track", !.storeId = params.storeId]
          IN  IF answer.kind = "result"
              THEN [asked EXCEPT !.answer = "ok",
                                 !.status = OrderStatusOf(answer.result),
                                 !.tracker = Tracker(answer.result),
                                 !.estimatedTime = EstimatedTime(answer.result)]
              ELSE IF answer.kind = "null"
              THEN [asked EXCEPT !.answer = "ok", !.status = "tracking_failed",
                                 !.error = "No tracking information found"]
              ELSE [asked EXCEPT !.answer = "failed", !.status = "tracking_failed",
                                 !.error = RemoteReason]
    /\ UNCHANGED <<server, draft, stores, selectedStore, menu, orders, pending, everPriced,
                   placeReturned>>

\* --------------------------------------------------------- the stdio server
\* createMCPServer: every line of stdin is one message.  The id of a request is its
\* position among the lines read; a line that is no JSON-RPC 2.0 request has none.
MaxLines == 3
NoAction == ""
RegisteredActions == {"getOrderState"}

\* the lines a client may write: a line that does not parse or is no 2.0 request,
\* mcp/discover, mcp/execute of a registered and of an unregistered action, and a
\* request of a method the server does not name
Line(valid, method, action) == [valid |-> valid, method |-> method, action |-> action]
Lines ==
    { Line(FALSE, "", NoAction),
      Line(TRUE, "mcp/discover", NoAction),
      Line(TRUE, "mcp/execute", "getOrderState"),
      Line(TRUE, "mcp/execute", "orderPizza"),
      Line(TRUE, "mcp/ping", NoAction) }

ParseError == -32700
ActionNotFound == -32601
ExecutionFailed == -32000

\* a message written by send(); id 0 when the message carries none
NoId == 0
Result(id) == [id |-> id, kind |-> "result", code |-> 0]
Error(id, code) == [id |-> id, kind |-> "error", code |-> code]

\* lines: the lines read so far; awaited: the ids whose handler has not settled;
\* sent: the messages written in answer
NoServer == [lines |-> <<>>, awaited |-> {}, sent |-> <<>>]

\* what the line callback sends before it returns or suspends
AnswerLine(line, id) ==
    IF ~line.valid THEN << Error(NoId, ParseError) >>
    ELSE IF line.method = "mcp/discover" THEN << Result(id) >>
    ELSE IF line.method = "mcp/execute"
    THEN IF line.action \in RegisteredActions THEN <<>>
         ELSE << Error(id, ActionNotFound) >>
    ELSE <<>>

\* rl.on("line"): the callback runs up to its return or to `await handler(...)`
serverLine(line) ==
    /\ Len(server.lines) < MaxLines
    /\ LET id == Len(server.lines) + 1 IN
       server' = [lines |-> Append(server.lines, line),
                  awaited |-> IF line.valid /\ line.method = "mcp/execute"
                                 /\ line.action \in RegisteredActions
                              THEN server.awaited \cup {id} ELSE server.awaited,
                  sent |-> server.sent \o AnswerLine(line, id)]
    /\ UNCHANGED <<draft, stores, selectedStore, menu, orders, pending, everPriced,
                   placeReturned, lastOp>>

\* the awaited handler resolves (the result is sent) or rejects (error -32000)
serverSettle(id, ok) ==
    /\ id \in server.awaited
    /\ server' = [server EXCEPT
                     !.awaited = @ \ {id},
                     !.sent = Append(@, IF ok THEN Result(id)
                                        ELSE Error(id, ExecutionFailed))]
    /\ UNCHANGED <<draft, stores, selectedStore, menu, orders, pending, everPriced,
                   placeReturned, lastOp>>

\* ------------------------------------------------------------ specification
Init ==
    /\ draft \in {1, 2}
    /\ stores = <<>>
    /\ selectedStore = NoStore
    /\ menu = NoMenu
    /\ orders = <<>>
    /\ pending = <<>>
    /\ everPriced = {}
    /\ placeReturned = {}
    /\ lastOp = NoOp
    /\ server = NoServer

Next ==
    \/ \E ok \in BOOLEAN, remoteStores \in RemoteStoreLists : findNearbyStores(ok, remoteStores)
    \/ \E storeId \in MenuStoreIds : getMenuCall(storeId)
    \/ \E i \in 1..MaxPending, ok \in BOOLEAN, menuData \in MenuPayloads :
           getMenuReturn(i, ok, menuData)
    \/ \E params \in TrackParams, answer \in TrackAnswers : trackOrder(params, answer)
    \/ \E line \in Lines : serverLine(line)
    \/ \E id \in 1..MaxLines, ok \in BOOLEAN : serverSettle(id, ok)
    \/ \E params \in CreateParams : createOrder(params)
    \/ \E orderId \in OrderIdInputs, item \in ItemInputs : addItemToOrder(orderId, item)
    \/ \E orderId \in OrderIdInputs, itemIndex \in ItemIndexInputs :
           removeItemFromOrder(orderId, itemIndex)
    \/ \E orderId \in OrderIdInputs : getOrderState(orderId)
    \/ \E orderId \in OrderIdInputs : validateOrderCall(orderId)
    \/ \E i \in 1..MaxPending, ok \in BOOLEAN : validateOrderReturn(i, ok)
    \/ \E orderId \in OrderIdInputs : priceOrderCall(orderId)
    \/ \E i \in 1..MaxPending, ok \in BOOLEAN, breakdown \in RemoteBreakdowns :
           priceOrderReturn(i, ok, breakdown)
    \/ \E orderId \in OrderIdInputs, payment \in PaymentInputs :
           \/ placeOrderRejects(orderId, payment)
           \/ placeOrderPaymentThrows(orderId, payment)
           \/ placeOrderCall(orderId, payment)
    \/ \E i \in 1..MaxPending, ok \in BOOLEAN, remoteId \in RemoteOrderIds :
           placeOrderReturn(i, ok, remoteId)

Spec == Init /\ [][Next]_vars

\* the orders and items within the bounds of the pricing and placement workflow
InWorkflow ==
    /\ Len(orders) <= WorkflowOrders
    /\ \A orderId \in DOMAIN orders : Len(orders[orderId].products) <= WorkflowItems

\* the order workflow on its own: every handler that reads or writes an order
NextOrders ==
    \/ \E params \in CreateParams : createOrder(params) /\ InWorkflow'
    \/ \E orderId \in WorkflowOrderIds, item \in ItemInputs :
           addItemToOrder(orderId, item) /\ InWorkflow'
    \/ \E orderId \in WorkflowOrderIds, itemIndex \in WorkflowItemIndexes :
           removeItemFromOrder(orderId, itemIndex)
    \/ \E orderId \in WorkflowOrderIds : getOrderState(orderId)
    \/ \E orderId \in WorkflowOrderIds : validateOrderCall(orderId)
    \/ \E i \in 1..MaxPending, ok \in BOOLEAN : validateOrderReturn(i, ok)
    \/ \E orderId \in WorkflowOrderIds : priceOrderCall(orderId)
    \/ \E i \in 1..MaxPending, ok \in BOOLEAN, breakdown \in RemoteBreakdowns :
           priceOrderReturn(i, ok, breakdown)
    \/ \E orderId \in WorkflowOrderIds, payment \in PaymentInputs :
           \/ placeOrderRejects(orderId, payment)
           \/ placeOrderPaymentThrows(orderId, payment)
           \/ placeOrderCall(orderId, payment)
    \/ \E i \in 1..MaxPending, ok \in BOOLEAN, remoteId \in RemoteOrderIds :
           placeOrderReturn(i, ok, remoteId)

SpecOrders == Init /\ [][NextOrders]_vars

\* the item list of one order on its own: creation, item mutation and the order's state
OneOrder == Len(orders) <= 1

NextItems ==
    \/ \E params \in CreateParams : createOrder(params) /\ OneOrder'
    \/ \E orderId \in OrderIdInputs, item \in ItemInputs : addItemToOrder(orderId, item)
    \/ \E orderId \in OrderIdInputs, itemIndex \in ItemIndexInputs :
           removeItemFromOrder(orderId, itemIndex)
    \/ \E orderId \in OrderIdInputs : getOrderState(orderId)
    \/ \E orderId \in OrderIdInputs : validateOrderCall(orderId)
    \/ \E i \in 1..MaxPending, ok \in BOOLEAN : validateOrderReturn(i, ok)

SpecItems == Init /\ [][NextItems]_vars

\* the store lookup on its own, over every list the remote may answer with
NextLookup ==
    \E ok \in BOOLEAN, remoteStores \in RemoteStoreLists : findNearbyStores(ok, remoteStores)

SpecLookup == Init /\ [][NextLookup]_vars

\* the lookup answers made of stores a caller asks the menu of
CandidateLists ==
    { l \in RemoteStoreLists : \A i \in DOMAIN l : l[i].StoreID \in MenuStoreIds }

\* the payloads that tell a menu that is accepted from one that is not
StoreMenus == { NoMenuData, MenuData(TRUE, TRUE, <<>>, TRUE, TRUE, 0, FALSE) }

\* the store selection on its own: the lookup, the menu and the creation of an order
NextStores ==
    \/ \E ok \in BOOLEAN, remoteStores \in CandidateLists : findNearbyStores(ok, remoteStores)
    \/ \E params \in CreateParams : createOrder(params) /\ OneOrder'
    \/ \E storeId \in MenuStoreIds : getMenuCall(storeId)
    \/ \E i \in 1..MaxPending, ok \in BOOLEAN, menuData \in StoreMenus :
           getMenuReturn(i, ok, menuData)

SpecStores == Init /\ [][NextStores]_vars

\* the tracking on its own, over every answer of the remote tracker
NextTrack == \E params \in TrackParams, answer \in TrackAnswers : trackOrder(params, answer)

SpecTrack == Init /\ [][NextTrack]_vars

\* the tracking next to a session that has stores, a selection, a menu and an order
SessionTrackAnswers ==
    { answer \in TrackAnswers :
        answer.kind = "result"
        => /\ answer.result.EstimatedDeliveryTime = NoTime
           /\ answer.result.timeItem = NoTime
           /\ answer.result.OrderStatus \in {"Baking", "Complete"} }

NextTracking ==
    \/ \E params \in TrackParams, answer \in SessionTrackAnswers : trackOrder(params, answer)
    \/ \E ok \in BOOLEAN, remoteStores \in CandidateLists : findNearbyStores(ok, remoteStores)
    \/ \E params \in CreateParams : createOrder(params) /\ OneOrder'
    \/ \E storeId \in MenuStoreIds : getMenuCall(storeId)
    \/ \E i \in 1..MaxPending, ok \in BOOLEAN, menuData \in StoreMenus :
           getMenuReturn(i, ok, menuData)

SpecTracking == Init /\ [][NextTracking]_vars

\* the stdio server on its own; every handler it awaits settles in the end
NextServer ==
    \/ \E line \in Lines : serverLine(line)
    \/ \E id \in 1..MaxLines, ok \in BOOLEAN : serverSettle(id, ok)

SpecServer ==
    /\ Init
    /\ [][NextServer]_vars
    /\ \A id \in 1..MaxLines : WF_vars(\E ok \in BOOLEAN : serverSettle(id, ok))

\* the menu on its own, over every payload
NextMenu ==
    \/ \E storeId \in StoreIds : getMenuCall(storeId)
    \/ \E i \in 1..MaxPending, ok \in BOOLEAN, menuData \in MenuPayloads :
           getMenuReturn(i, ok, menuData)

SpecMenu == Init /\ [][NextMenu]_vars

\* every handler that reads or writes an order, over two orders of at most one item
\* and a narrow choice of inputs
SessionCreateParams ==
    { params \in CreateParams :
        params.customer.address # NoAddress \/ params.orderType = "delivery" }
SessionItems == { item \in ItemInputs : item.quantity = NoQuantity }
SessionPayments == { Cash(NoTip) }
SessionBreakdowns == { breakdown \in RemoteBreakdowns : breakdown.customer > 0 }
AtMostOneItem == \A orderId \in DOMAIN orders : Len(orders[orderId].products) <= 1

NextSession ==
    \/ \E params \in SessionCreateParams : createOrder(params)
    \/ \E orderId \in OrderIdInputs, item \in SessionItems :
           addItemToOrder(orderId, item) /\ AtMostOneItem'
    \/ \E orderId \in OrderIdInputs : removeItemFromOrder(orderId, 0)
    \/ \E orderId \in OrderIdInputs : getOrderState(orderId)
    \/ \E orderId \in OrderIdInputs : validateOrderCall(orderId)
    \/ \E i \in 1..MaxPending, ok \in BOOLEAN : validateOrderReturn(i, ok)
    \/ \E orderId \in OrderIdInputs : priceOrderCall(orderId)
    \/ \E i \in 1..MaxPending, ok \in BOOLEAN, breakdown \in SessionBreakdowns :
           priceOrderReturn(i, ok, breakdown)
    \/ \E orderId \in OrderIdInputs, payment \in SessionPayments :
           \/ placeOrderRejects(orderId, payment)
           \/ placeOrderPaymentThrows(orderId, payment)
           \/ placeOrderCall(orderId, payment)
    \/ \E i \in 1..MaxPending, ok \in BOOLEAN, remoteId \in RemoteOrderIds :
           placeOrderReturn(i, ok, remoteId)

SpecSession == Init /\ [][NextSession]_vars

\* ==================================================================== claims
\* the order a step was about, when there is one
Target == orders[lastOp.orderId]
OnOrder(op) == lastOp.op = op /\ HasOrder(orders, lastOp.orderId)
\* a placeOrder handler is suspended at `await order.place()` for this order
PlaceInFlight(orderId) ==
    \E i \in DOMAIN pending : pending[i] = Suspended("placeOrder", orderId)

\* the id the session issued for the order at this position (uuidv4)
SessionId(orderId) == <<"order-1", "order-2", "order-3", "order-4", "order-5">>[orderId]

\* C1: a placeOrder on an order that no priceOrder has priced so far fails locally
\* with "Order must be priced before placing", and no remote placement call is made
\* or in flight for it.
C1_UnpricedPlaceFailsLocally ==
    /\ (OnOrder("placeOrder") /\ lastOp.orderId \notin everPriced) =>
          /\ lastOp.outcome = "raised"
          /\ lastOp.error = "Order must be priced before placing"
          /\ lastOp.remote = "none"
    /\ \A orderId \in DOMAIN orders :
          PlaceInFlight(orderId) => orderId \in everPriced

\* C1 witness: placeOrder was just rejected on a never-priced order that has items
C1_Witness ==
    /\ OnOrder("placeOrder")
    /\ lastOp.orderId \notin everPriced
    /\ Len(Target.products) > 0
    /\ lastOp.outcome = "raised"

\* C2: a credit placeOrder on a priced order with cardNumber, expiration or
\* securityCode absent is rejected locally: no remote call, the stored orders and
\* the suspended handlers are as before the call.
C2_MissingCardFieldFailsLocally ==
    [][ ( /\ lastOp'.op = "placeOrder"
          /\ lastOp'.payment.type = "credit"
          /\ NoField \in { lastOp'.payment.cardNumber, lastOp'.payment.expiration,
                           lastOp'.payment.securityCode }
          /\ HasOrder(orders, lastOp'.orderId)
          /\ orders[lastOp'.orderId].amountsBreakdown.customer > 0 )
        => ( /\ lastOp'.outcome = "raised"
             /\ lastOp'.error = "Card details are required for credit payment"
             /\ lastOp'.remote = "none"
             /\ orders' = orders
             /\ pending' = pending ) ]_vars

\* C2 witness: a credit placeOrder without a security code was rejected on a priced order
C2_Witness ==
    /\ OnOrder("placeOrder")
    /\ Target.amountsBreakdown.customer > 0
    /\ lastOp.payment.type = "credit"
    /\ lastOp.payment.securityCode = NoField
    /\ lastOp.outcome = "raised"

\* C3 (as claimed): once a placeOrder on an order has returned placed or
\* placement_failed, and no placeOrder is in flight for it, the stored order holds
\* no payment record.
C3_NoPaymentAfterPlacement ==
    \A orderId \in placeReturned :
        ~PlaceInFlight(orderId) => orders[orderId].payments = <<>>

\* C4: at every remote placement call, and while it is in flight, the order carries
\* exactly one payment, also on a retry after failed attempts.
C4_ExactlyOnePayment ==
    /\ lastOp.remote = "place" => Len(lastOp.sent) = 1
    /\ \A orderId \in DOMAIN orders :
          PlaceInFlight(orderId) => Len(orders[orderId].payments) = 1

\* C4 witness: a remote placement call issued on an order whose earlier placeOrder
\* returned without placing it
C4_Witness ==
    /\ lastOp.remote = "place"
    /\ lastOp.orderId \in placeReturned
    /\ Target.orderID = NoRemoteId
    /\ Len(lastOp.sent) = 1

\* C5: createOrder for a delivery order without a customer address raises a
\* validation error, issues no id and leaves the orders as they were; getOrderState
\* with an id that was never issued reports not found.
C5_DeliveryWithoutAddressFails ==
    [][ /\ ( /\ lastOp'.op = "createOrder"
             /\ lastOp'.create.orderType = "delivery"
             /\ lastOp'.create.customer.address = NoAddress )
           => ( /\ lastOp'.outcome = "raised"
                /\ lastOp'.error \in { "Address is required for delivery orders",
                                       "Address is required even for carry out orders" }
                /\ lastOp'.orderId = 0
                /\ orders' = orders )
        /\ ( lastOp'.op = "getOrderState" /\ ~HasOrder(orders, lastOp'.orderId) )
           => ( /\ lastOp'.outcome = "raised"
                /\ lastOp'.error = "Order not found in session" ) ]_vars

\* C5 witness: a delivery createOrder without an address was just rejected
C5_Witness ==
    /\ lastOp.op = "createOrder"
    /\ lastOp.create.orderType = "delivery"
    /\ lastOp.create.customer.address = NoAddress
    /\ lastOp.outcome = "raised"
    /\ orders = <<>>

\* C6 (as claimed): createOrder for a carryout order without an address succeeds,
\* registering a Carryout order under the id it returns.
C6_CarryoutWithoutAddressSucceeds ==
    ( /\ lastOp.op = "createOrder"
      /\ lastOp.create.orderType = "carryout"
      /\ lastOp.create.customer.address = NoAddress )
    => ( /\ lastOp.outcome = "returned"
         /\ lastOp.status = "created"
         /\ HasOrder(orders, lastOp.orderId)
         /\ Target.serviceMethod = "Carryout" )

\* C7 (as claimed): a credit placeOrder on a Carryout order created without an
\* address is rejected locally, before any remote placement call.
C7_CarryoutCreditNeedsAddress ==
    ( /\ OnOrder("placeOrder")
      /\ lastOp.payment.type = "credit"
      /\ Target.serviceMethod = "Carryout"
      /\ Target.address = NoAddress )
    => ( lastOp.outcome = "raised" /\ lastOp.remote = "none" )

\* C8: the payment sent with a remote placement call carries no tip for a Carryout
\* order, whatever tipAmount was supplied; for a Delivery order a supplied non-zero
\* tipAmount is carried unchanged.
C8_TipOnlyForDelivery ==
    lastOp.remote = "place" =>
        /\ Len(lastOp.sent) >= 1
        /\ \A k \in DOMAIN lastOp.sent :
              /\ Target.serviceMethod = "Carryout" => lastOp.sent[k].tipAmount = NoTip
              /\ ( /\ Target.serviceMethod = "Delivery"
                   /\ lastOp.payment.tipAmount \notin {NoTip, 0} )
                 => lastOp.sent[k].tipAmount = lastOp.payment.tipAmount

\* C8 witness: a remote placement call for a Carryout order, the caller having
\* supplied a tip
C8_Witness ==
    /\ lastOp.remote = "place"
    /\ Target.serviceMethod = "Carryout"
    /\ lastOp.payment.tipAmount = 3

\* C9: a "priced" result has a delivery field exactly when the order is a Delivery
\* order, and its subTotal, tax and total (and the delivery fee) are the remote
\* amounts, 0 where the remote gave none.
C9_DeliveryFeeIffDelivery ==
    ( lastOp.op = "priceOrder" /\ lastOp.status = "priced" ) =>
        /\ lastOp.pricing.hasDelivery = (Target.serviceMethod = "Delivery")
        /\ lastOp.pricing.subTotal = Target.amountsBreakdown.menu
        /\ lastOp.pricing.tax = Target.amountsBreakdown.tax
        /\ lastOp.pricing.total = Target.amountsBreakdown.customer
        /\ lastOp.pricing.hasDelivery =>
              lastOp.pricing.delivery = Target.amountsBreakdown.surcharge

\* C9 witness: a Carryout order priced with a remote breakdown that has a surcharge
C9_Witness ==
    /\ lastOp.op = "priceOrder"
    /\ lastOp.status = "priced"
    /\ Target.serviceMethod = "Carryout"
    /\ Target.amountsBreakdown.surcharge > 0
    /\ ~lastOp.pricing.hasDelivery

\* C10: when the remote validate, price or place call fails, the handler returns a
\* result (it does not raise) with status validation_failed and isValid false,
\* pricing_failed or placement_failed, carrying the remote reason.
C10_RemoteFailureIsAResult ==
    lastOp.answer = "failed" =>
        /\ lastOp.outcome = "returned"
        /\ lastOp.error = RemoteReason
        /\ lastOp.op \in {"validateOrder", "priceOrder", "placeOrder"}
        /\ lastOp.op = "validateOrder" =>
              (lastOp.status = "validation_failed" /\ lastOp.isValid = "false")
        /\ lastOp.op = "priceOrder" => lastOp.status = "pricing_failed"
        /\ lastOp.op = "placeOrder" => lastOp.status = "placement_failed"

\* C10 witness: the remote placement call failed
C10_Witness ==
    /\ lastOp.answer = "failed"
    /\ lastOp.op = "placeOrder"
    /\ lastOp.status = "placement_failed"

\* C11: a validateOrder on an unknown orderId, or on an order with no items, is
\* rejected locally: it raises, issues no remote call and suspends nothing; a remote
\* validate call is issued only for a stored order with at least one item.
C11_ValidateFailsLocally ==
    [][ /\ ( /\ lastOp'.op = "validateOrder"
             /\ lastOp'.answer = "none"
             /\ \/ ~HasOrder(orders, lastOp'.orderId)
                \/ Len(orders[lastOp'.orderId].products) = 0 )
           => ( /\ lastOp'.outcome = "raised"
                /\ lastOp'.error \in {"Order not found", "Order has no items"}
                /\ lastOp'.remote = "none"
                /\ pending' = pending
                /\ orders' = orders )
        /\ lastOp'.remote = "validate"
           => ( /\ HasOrder(orders, lastOp'.orderId)
                /\ Len(orders[lastOp'.orderId].products) >= 1 ) ]_vars

\* C11 witness: validateOrder was just rejected on a stored order that has no items
C11_Witness ==
    /\ OnOrder("validateOrder")
    /\ Len(Target.products) = 0
    /\ lastOp.outcome = "raised"
    /\ lastOp.error = "Order has no items"
    /\ pending = <<>>

\* C12: a removeItemFromOrder on a stored order with an itemIndex at or beyond the
\* order's item count ends with the out-of-range error, and every order's item list
\* is as before the call.
C12_RemoveOutOfRangeFails ==
    [][ ( /\ lastOp'.op = "removeItemFromOrder"
          /\ HasOrder(orders, lastOp'.orderId)
          /\ lastOp'.itemIndex >= Len(orders[lastOp'.orderId].products) )
        => ( /\ lastOp'.status = "error_removing_item"
             /\ lastOp'.error = "Invalid itemIndex"
             /\ orders' = orders ) ]_vars

\* C12 witness: index 2 was just refused on an order of two different items
C12_Witness ==
    /\ OnOrder("removeItemFromOrder")
    /\ lastOp.itemIndex = 2
    /\ Len(Target.products) = 2
    /\ Target.products[1] # Target.products[2]
    /\ lastOp.error = "Invalid itemIndex"

\* C13: a successful removeItemFromOrder was given an index valid at that moment and
\* removes exactly the item at that position: one item fewer, remainingItemsCount is
\* the new count, the other items keep their places relative to each other, no other
\* order changes; and a later getOrderState reports the items as they are stored.
C13_RemoveExactlyThatItem ==
    [][ /\ ( lastOp'.op = "removeItemFromOrder" /\ lastOp'.status = "item_removed" )
           => LET orderId == lastOp'.orderId
                  k == lastOp'.itemIndex
                  old == orders[orderId].products
                  new == orders'[orderId].products
              IN /\ k >= 0 /\ k < Len(old)
                 /\ Len(new) = Len(old) - 1
                 /\ lastOp'.remaining = Len(new)
                 /\ \A j \in 1..Len(new) : new[j] = IF j <= k THEN old[j] ELSE old[j + 1]
                 /\ \A other \in DOMAIN orders : other # orderId => orders'[other] = orders[other]
        /\ ( lastOp'.op = "getOrderState" /\ lastOp'.outcome = "returned" )
           => LET items == lastOp'.state.items
                  stored == orders'[lastOp'.orderId].products
              IN /\ Len(items) = Len(stored)
                 /\ \A j \in 1..Len(stored) :
                       /\ items[j].code = stored[j].code
                       /\ items[j].quantity = stored[j].qty ]_vars

\* C13 witness: the middle one of three items was just removed, leaving two different items
C13_Witness ==
    /\ OnOrder("removeItemFromOrder")
    /\ lastOp.status = "item_removed"
    /\ lastOp.itemIndex = 1
    /\ lastOp.remaining = 2
    /\ Target.products[1] # Target.products[2]

\* C14: a getOrderState that directly follows a successful createOrder, with the id
\* it returned, reports no items, the firstName, lastName, phone and email supplied,
\* the store id supplied and the service method of the orderType.
C14_CreateThenGetOrderState ==
    [][ ( /\ lastOp.op = "createOrder"
          /\ lastOp.status = "created"
          /\ lastOp'.op = "getOrderState"
          /\ lastOp'.orderId = lastOp.orderId )
        => ( /\ lastOp'.outcome = "returned"
             /\ lastOp'.state.items = <<>>
             /\ lastOp'.state.customer.firstName = lastOp.create.customer.firstName
             /\ lastOp'.state.customer.lastName = lastOp.create.customer.lastName
             /\ lastOp'.state.customer.phone = lastOp.create.customer.phone
             /\ lastOp'.state.customer.email = lastOp.create.customer.email
             /\ lastOp'.state.storeId = lastOp.create.storeId
             /\ lastOp'.state.serviceMethod =
                   IF lastOp.create.orderType = "delivery" THEN "Delivery" ELSE "Carryout" ) ]_vars

\* C14 witness: getOrderState directly after the createOrder that made a carryout order
C14_Witness ==
    /\ OnOrder("getOrderState")
    /\ lastOp.after = [op |-> "createOrder", orderId |-> lastOp.orderId, status |-> "created"]
    /\ lastOp.state.serviceMethod = "Carryout"
    /\ lastOp.state.customer.firstName = "Brandon"

\* C15: an addItemToOrder without a quantity appends one line item of quantity 1 (the
\* code as given) after the items already there, and returns the whole updated list.
C15_QuantityDefaultsToOne ==
    [][ ( /\ lastOp'.op = "addItemToOrder"
          /\ lastOp'.status = "updated"
          /\ lastOp'.item.quantity = NoQuantity )
        => LET old == orders[lastOp'.orderId].products
               new == orders'[lastOp'.orderId].products
           IN /\ Len(new) = Len(old) + 1
              /\ \A j \in 1..Len(old) : new[j] = old[j]
              /\ new[Len(new)].qty = 1
              /\ new[Len(new)].code = lastOp'.item.code
              /\ Len(lastOp'.items) = Len(new)
              /\ \A j \in 1..Len(new) :
                    /\ lastOp'.items[j].code = new[j].code
                    /\ lastOp'.items[j].quantity = new[j].qty ]_vars

\* C15 witness: an item without a quantity was just added after an item of quantity 2
C15_Witness ==
    /\ OnOrder("addItemToOrder")
    /\ lastOp.status = "updated"
    /\ lastOp.item.quantity = NoQuantity
    /\ Len(Target.products) = 2
    /\ Target.products[1].qty = 2
    /\ Target.products[2].qty = 1

\* C16 (as claimed): every line item of every stored order has a quantity of at
\* least 1, whatever integer quantity addItemToOrder was called with.
C16_QuantityAtLeastOne ==
    \A orderId \in DOMAIN orders :
        \A j \in DOMAIN orders[orderId].products : orders[orderId].products[j].qty >= 1

\* the distance the remote lookup gave for a store of the recorded list
RemoteDistance(storeID) ==
    (CHOOSE store \in { stores[k] : k \in DOMAIN stores } : store.StoreID = storeID).MinDistance

\* C17 (as claimed): the stores findNearbyStores returns are exactly the remote
\* stores that are open and online-orderable, and of two returned stores the one
\* listed first is not farther, by the remote distances, than the other.
C17_OpenOnlineByDistance ==
    ( lastOp.op = "findNearbyStores" /\ lastOp.outcome = "returned" ) =>
        /\ { lastOp.found[i].storeID : i \in DOMAIN lastOp.found }
              = { stores[k].StoreID :
                    k \in { n \in DOMAIN stores : stores[n].IsOpen /\ stores[n].IsOnlineCapable } }
        /\ \A i, j \in DOMAIN lastOp.found : i # j => lastOp.found[i].storeID # lastOp.found[j].storeID
        /\ \A i, j \in DOMAIN lastOp.found :
              ( /\ i < j
                /\ RemoteDistance(lastOp.found[i].storeID) # NoDistance
                /\ RemoteDistance(lastOp.found[j].storeID) # NoDistance )
              => RemoteDistance(lastOp.found[i].storeID) <= RemoteDistance(lastOp.found[j].storeID)

\* the store id a selectStore call of the last step was given, "none" when it made none
SelectAsked ==
    IF lastOp.op = "getMenu" /\ lastOp.outcome = "awaiting" THEN lastOp.storeId
    ELSE IF lastOp.op = "createOrder" /\ lastOp.status = "created" THEN lastOp.create.storeId
    ELSE NoStore

\* C18 (as claimed): a selectStore(id) with id in the recorded candidate list selects
\* that store and returns it; with id not in the list it returns the not-found
\* signal, never a store.
C18_SelectStoreNotFoundIsNull ==
    SelectAsked # NoStore =>
        IF \E k \in DOMAIN stores : stores[k].StoreID = SelectAsked
        THEN selectedStore = SelectAsked /\ lastOp.store = SelectAsked
        ELSE lastOp.store = NoStore

\* C19 (as claimed): once getMenu(storeId) has made its selection, the selected store
\* is the one with identifier storeId, also when the candidate list does not have it.
C19_GetMenuSelectsAnyStore ==
    ( lastOp.op = "getMenu" /\ ( lastOp.outcome = "awaiting" \/ orders = <<>> ) )
        => selectedStore = lastOp.storeId

\* the fields of an order that are set at its creation
Created(order) ==
    <<order.storeID, order.serviceMethod, order.firstName, order.lastName, order.phone,
      order.email, order.address>>

\* C20: a successful createOrder adds one entry under an id no entry had, and every
\* step keeps every entry under its id: none is removed, none is replaced by another
\* order.
C20_OrderIdsFreshAndKept ==
    [][ /\ \A orderId \in DOMAIN orders :
              /\ orderId \in DOMAIN orders'
              /\ Created(orders'[orderId]) = Created(orders[orderId])
        /\ ( lastOp'.op = "createOrder" /\ lastOp'.status = "created" )
           => ( /\ lastOp'.orderId \notin DOMAIN orders
                /\ DOMAIN orders' = DOMAIN orders \cup {lastOp'.orderId}
                /\ Created(orders'[lastOp'.orderId]) = Created(NewOrder(lastOp'.create)) ) ]_vars

\* C20 witness: a second order was just created, of the other service method, and the
\* first is still there with an item
C20_Witness ==
    /\ lastOp.op = "createOrder"
    /\ lastOp.status = "created"
    /\ lastOp.orderId = 2
    /\ orders[1].serviceMethod # orders[2].serviceMethod
    /\ Len(orders[1].products) = 1

\* the handlers of the order workflow
WorkflowOps ==
    { "createOrder", "addItemToOrder", "removeItemFromOrder", "getOrderState",
      "validateOrder", "priceOrder", "placeOrder" }

\* C21: a workflow call that fails on a local precondition (it ends before any remote
\* answer, raised or with removeItemFromOrder's error result) has issued no remote
\* call and leaves stores, selectedStore, menu, every order and the suspended
\* handlers exactly as they were.
C21_LocalFailureHasNoEffect ==
    [][ ( /\ lastOp'.op \in WorkflowOps
          /\ lastOp'.answer = "none"
          /\ lastOp'.outcome = "raised" \/ lastOp'.status = "error_removing_item" )
        => ( /\ lastOp'.remote = "none"
             /\ stores' = stores
             /\ selectedStore' = selectedStore
             /\ menu' = menu
             /\ orders' = orders
             /\ pending' = pending ) ]_vars

\* C21 witness: a negative itemIndex was just refused on a priced order that has an
\* item and a payment attached
C21_Witness ==
    /\ OnOrder("removeItemFromOrder")
    /\ lastOp.itemIndex = -1
    /\ lastOp.status = "error_removing_item"
    /\ Len(Target.products) >= 1
    /\ Target.amountsBreakdown.customer > 0
    /\ Len(Target.payments) = 1

\* C22 (as claimed): a workflow call that fails on a local precondition ends as a
\* raised error, never as a returned result.
C22_LocalFailureIsRaised ==
    ( /\ lastOp.op \in WorkflowOps
      /\ lastOp.answer = "none"
      /\ lastOp.error # ""
      /\ lastOp.status # "placement_failed" )
    => lastOp.outcome = "raised"

\* C26 (as claimed): once priceOrder has returned "priced" for an order, a placeOrder
\* on it with complete payment fields is not rejected with "Order must be priced
\* before placing", whatever the pricing answer was.
C26_PricedThenPlaceNotRejected ==
    ( /\ OnOrder("placeOrder")
      /\ lastOp.orderId \in everPriced
      /\ lastOp.payment # NoPaymentInput
      /\ lastOp.payment.type = "credit"
           => /\ lastOp.payment.cardNumber # NoField
              /\ lastOp.payment.expiration # NoField
              /\ lastOp.payment.securityCode # NoField
              /\ lastOp.payment.postalCode # NoField )
    => lastOp.error # "Order must be priced before placing"

C28_NoPaymentBeforePlaceCompletes ==
    \A orderId \in DOMAIN orders :
        ( PlaceInFlight(orderId) /\ orderId \notin placeReturned )
        => orders[orderId].payments = <<>>

\* C25 (as claimed): after a successful findNearbyStores the session's candidate list
\* is exactly the result set returned to the caller (the open, online-orderable
\* stores), and after a failed lookup the list is the one from before.
C25_CandidatesAreTheResultSet ==
    [][ lastOp'.op = "findNearbyStores"
        => IF lastOp'.outcome = "returned"
           THEN /\ Len(stores') = Len(lastOp'.found)
                /\ \A i \in DOMAIN stores' : stores'[i].StoreID = lastOp'.found[i].storeID
           ELSE stores' = stores ]_vars

\* a getMenu whose fetch was answered with a payload that lacks a section
AnsweredIncomplete ==
    /\ lastOp.op = "getMenu"
    /\ lastOp.answer = "ok"
    /\ \/ ~lastOp.menuData.present
       \/ ~lastOp.menuData.hasProducts
       \/ ~lastOp.menuData.hasVariants
       \/ ~lastOp.menuData.hasToppings

\* C23 (as claimed): whenever the payload lacks Products, Variants or Toppings, or is
\* absent, getMenu fails with the "incomplete menu data" error, whatever else the
\* payload holds.
C23_IncompleteMenuIsOneError ==
    AnsweredIncomplete
    => /\ lastOp.outcome = "raised"
       /\ lastOp.error = "Incomplete menu data received from API"

\* C23 (amended): whenever the payload lacks Products, Variants or Toppings, or is
\* absent, getMenu fails: with the store-status error when the payload carries
\* Misc.Status -1 and a Misc.StatusItem, with the "incomplete menu data" error in
\* every other case.
C23_IncompleteMenuFails ==
    AnsweredIncomplete
    => /\ lastOp.outcome = "raised"
       /\ lastOp.error =
             IF /\ lastOp.menuData.present
                /\ lastOp.menuData.status = -1
                /\ lastOp.menuData.hasStatusItem
             THEN "Store status indicates an issue"
             ELSE "Incomplete menu data received from API"

\* C23 witness: a payload that lacks nothing but Toppings and reports a store problem
\* was just refused
C23_Witness ==
    /\ AnsweredIncomplete
    /\ lastOp.outcome = "raised"
    /\ lastOp.menuData.hasProducts
    /\ lastOp.menuData.hasVariants
    /\ lastOp.menuData.status = -1
    /\ lastOp.menuData.hasStatusItem

\* the order the claim lists the categories in
ClaimedOrder == <<"Pizzas", "Pastas", "Sandwiches", "Sides", "Drinks", "Desserts", "Other">>
Position(categoryName) == CHOOSE k \in DOMAIN ClaimedOrder : ClaimedOrder[k] = categoryName
ClaimedSideTypes == {"Bread", "BreadDipCombos", "Wings", "Tots", "GSalad", "DipSauce"}
Lists(category, name) == \E k \in DOMAIN category.items : category.items[k].name = name

\* C30: the categories of a successful getMenu are names of the order Pizzas, Pastas,
\* Sandwiches, Sides, Drinks, Desserts, Other, in that order and each at most once;
\* none of them is without an item; and a named product of raw type Bread,
\* BreadDipCombos, Wings, Tots, GSalad or DipSauce is listed under Sides and under
\* no other category.
C30_CategoriesInOrderNoneEmpty ==
    ( lastOp.op = "getMenu" /\ lastOp.status = "menu" )
    => LET categories == lastOp.categories
           products == lastOp.menuData.products
       IN  /\ \A i \in DOMAIN categories :
                 /\ \E k \in DOMAIN ClaimedOrder : ClaimedOrder[k] = categories[i].name
                 /\ Len(categories[i].items) > 0
           /\ \A i, j \in DOMAIN categories :
                 i < j => Position(categories[i].name) < Position(categories[j].name)
           /\ \A p \in DOMAIN products :
                 ( products[p].ProductType \in ClaimedSideTypes /\ products[p].Name # "" )
                 => /\ \E i \in DOMAIN categories :
                          /\ categories[i].name = "Sides"
                          /\ Lists(categories[i], products[p].Name)
                    /\ \A i \in DOMAIN categories :
                          Lists(categories[i], products[p].Name)
                          => categories[i].name = "Sides"

\* C30 witness: a menu was returned with the wings under Sides and without the
\* category of a sandwich that has no variant the payload describes
C30_Witness ==
    /\ lastOp.op = "getMenu"
    /\ lastOp.status = "menu"
    /\ \E p \in DOMAIN lastOp.menuData.products :
          lastOp.menuData.products[p].ProductType = "Sandwich"
    /\ Len(lastOp.categories) = 1
    /\ lastOp.categories[1].name = "Sides"
    /\ Lists(lastOp.categories[1], "Wings")

\* the stage of a status of the ordered vocabulary and of a milestone
StageOfStatus(status) ==
    CASE status = "Placed" -> 1
      [] status = "Preparing" -> 2
      [] status = "Baking" -> 3
      [] status = "Quality Check" -> 4
      [] status \in {"Out for Delivery", "Ready for Pickup"} -> 5
      [] status = "Complete" -> 6
StageOfMilestone(milestone) ==
    CASE milestone = "orderPlaced" -> 1
      [] milestone = "preparation" -> 2
      [] milestone = "baking" -> 3
      [] milestone = "qualityCheck" -> 4
      [] milestone \in {"outForDelivery", "readyForPickup"} -> 5
      [] milestone \in {"delivered", "pickedUp"} -> 6
Tracked == lastOp.op = "trackOrder" /\ lastOp.status # "tracking_failed"

\* C24 (as claimed): for every status of the ordered vocabulary and every milestone
\* of the checklist trackOrder returns, the milestone is true exactly when the
\* status is at or past the stage of the milestone.
C24_MilestoneTrueFromItsStage ==
    ( /\ Tracked
      /\ lastOp.status \in { "Placed", "Preparing", "Baking", "Quality Check",
                             "Out for Delivery", "Ready for Pickup", "Complete" } )
    => \A milestone \in DOMAIN lastOp.tracker :
          lastOp.tracker[milestone]
             <=> StageOfStatus(lastOp.status) >= StageOfMilestone(milestone)

\* C31: in a successful getMenu result every item has at least one variant, no two
\* variants of an item share a code, the items of a category are in ascending name
\* order with one item per name, and the variants of an item are in ascending code
\* order.
C31_ItemsAndVariantsSorted ==
    ( lastOp.op = "getMenu" /\ lastOp.status = "menu" )
    => \A c \in DOMAIN lastOp.categories :
          LET items == lastOp.categories[c].items IN
          /\ \A i, j \in DOMAIN items :
                i < j => Rank(items[i].name) < Rank(items[j].name)
          /\ \A i \in DOMAIN items :
                LET variants == items[i].variants IN
                /\ Len(variants) >= 1
                /\ \A v, w \in DOMAIN variants :
                      v < w => /\ variants[v].code # variants[w].code
                               /\ Rank(variants[v].code) < Rank(variants[w].code)

\* C31 witness: two products of one name, one of them listing a variant code twice
\* and out of order, came back as one item with three variants
C31_Witness ==
    /\ lastOp.op = "getMenu"
    /\ lastOp.status = "menu"
    /\ Len(lastOp.menuData.products) = 2
    /\ Len(lastOp.categories) = 1
    /\ Len(lastOp.categories[1].items) = 1
    /\ Len(lastOp.categories[1].items[1].variants) = 3

\* C32: trackOrder, whether it succeeds or fails, leaves stores, selectedStore, menu
\* and orders (and the suspended handlers) as they were, and asks the remote tracker
\* by store id and order id when an order id is given, by the digits of the phone
\* number and the store id otherwise.
C32_TrackOrderIsStateless ==
    [][ lastOp'.op = "trackOrder"
        => /\ stores' = stores
           /\ selectedStore' = selectedStore
           /\ menu' = menu
           /\ orders' = orders
           /\ pending' = pending
           /\ lastOp'.query.storeId = lastOp'.track.storeId
           /\ IF lastOp'.track.orderId # NoRemoteId
              THEN /\ lastOp'.query.by = "id"
                   /\ lastOp'.query.orderId = lastOp'.track.orderId
              ELSE /\ lastOp'.query.by = "phone"
                   /\ lastOp'.query.phone
                         = SelectSeq(lastOp'.track.phoneNumber, LAMBDA c : c \in Digits) ]_vars

\* C32 witness: an order was tracked by a phone number written with punctuation while
\* the session holds stores, a selected store, a menu and an order
C32_Witness ==
    /\ lastOp.op = "trackOrder"
    /\ lastOp.query.by = "phone"
    /\ Len(lastOp.query.phone) < Len(lastOp.track.phoneNumber)
    /\ stores # <<>>
    /\ selectedStore # NoStore
    /\ menu # NoMenu
    /\ orders # <<>>

\* placeOrder has just issued its remote placement call
PlaceCalled ==
    /\ OnOrder("placeOrder")
    /\ lastOp.remote = "place"
    /\ lastOp.outcome = "awaiting"

\* C33 (as claimed): once a placeOrder on an order has returned "placed", no
\* placeOrder on that order makes another remote placement call.
C33_PlacedAtMostOnce ==
    PlaceCalled => Target.status # "Placed"

\* C34 (as claimed): no remote placement call is made for an order whose item list
\* is empty at the time of the call.
C34_NoPlacementOfEmptyOrder ==
    PlaceCalled => Len(Target.products) > 0

\* C36 (as claimed): whenever the result of a createOrder carries a store, that
\* store's identifier is the storeId passed to the call.
C36_StoreEchoIsTheStoreAsked ==
    ( lastOp.op = "createOrder" /\ lastOp.status = "created" /\ lastOp.store # NoStore )
    => lastOp.store = lastOp.create.storeId

\* the milestones of either path, in order
DeliveryPath ==
    <<"orderPlaced", "preparation", "baking", "qualityCheck", "outForDelivery", "delivered">>
CarryoutPath ==
    <<"orderPlaced", "preparation", "baking", "qualityCheck", "readyForPickup", "pickedUp">>
PrefixClosed(tracker, path) ==
    \A i, j \in DOMAIN path : ( i < j /\ tracker[path[j]] ) => tracker[path[i]]

\* C37: for every status the remote tracker reports, the ones the handler does not
\* name included, and either service method, the checklist trackOrder returns has
\* exactly the milestones of the path of that method, and a milestone that is true
\* has every earlier milestone of the path true.
C37_TrackerPrefixClosed ==
    Tracked
    => \/ /\ DOMAIN lastOp.tracker = { DeliveryPath[i] : i \in DOMAIN DeliveryPath }
          /\ PrefixClosed(lastOp.tracker, DeliveryPath)
       \/ /\ DOMAIN lastOp.tracker = { CarryoutPath[i] : i \in DOMAIN CarryoutPath }
          /\ PrefixClosed(lastOp.tracker, CarryoutPath)

\* C37 witness: a carryout order of a status the handler does not name was tracked:
\* the first four milestones are true, the last two are not
C37_Witness ==
    /\ Tracked
    /\ lastOp.status = "Cancelled"
    /\ "readyForPickup" \in DOMAIN lastOp.tracker
    /\ lastOp.tracker["qualityCheck"]
    /\ ~lastOp.tracker["readyForPickup"]

\* C38 (as claimed): the state getOrderState returns of an existing order carries, as
\* orderId, the session id the caller passed.
C38_StateCarriesSessionId ==
    ( OnOrder("getOrderState") /\ lastOp.outcome = "returned" )
    => lastOp.state.orderId = SessionId(lastOp.orderId)

\* C35 (as claimed): when getMenu fails, on the fetch or on an incomplete payload,
\* the stored menu and the selected store are the ones from before the call.
C35_FailedGetMenuChangesNothing ==
    [][ ( lastOp'.op = "getMenu" /\ lastOp'.outcome = "raised" )
        => /\ menu' = menu
           /\ \A i \in DOMAIN pending :
                 ( pending[i].op = "getMenu" /\ pending' = Resume(i) )
                 => selectedStore' = pending[i].selected ]_vars

\* the messages sent so far that carry this id
Answers(id) == SelectSeq(server.sent, LAMBDA message : message.id = id)
\* the one answer the claim gives the request of this id
AnsweredOnce(id) ==
    /\ Len(Answers(id)) = 1
    /\ LET line == server.lines[id]
           answer == Answers(id)[1]
       IN  IF line.method = "mcp/discover" THEN answer.kind = "result"
           ELSE IF line.method = "mcp/execute"
           THEN IF line.action = "getOrderState"
                THEN answer.kind = "result" \/ answer.code = -32000
                ELSE answer.kind = "error" /\ answer.code = -32601
           ELSE TRUE

\* C39 (as claimed): every well-formed JSON-RPC 2.0 request line that carries an id
\* is in the end answered by exactly one message of that id (a result for
\* mcp/discover, a result or error -32000 for mcp/execute of a registered action,
\* error -32601 for an unregistered one), and never by two; this for a request of
\* any method.
C39_EveryRequestAnsweredOnce ==
    \A id \in 1..MaxLines :
        /\ [](Len(Answers(id)) <= 1)
        /\ ( id \in DOMAIN server.lines /\ server.lines[id].valid )
              ~> []( id \in DOMAIN server.lines /\ AnsweredOnce(id) )

====
